---------------------------- MODULE Spec2Model ----------------------------
(***************************************************************************)
(* A model of the disc ripper's two TV pipelines, src/dvd_ripper_windows.py *)
(* (HandBrakeCLI) and src/bluray_ripper.py (MakeMKV): the title catalog,    *)
(* the duration classifier, the runtime range resolver, the episode         *)
(* sequencer and the rip loop.                                              *)
(*                                                                          *)
(* Specifications:                                                          *)
(*   SpecSeq   find_next_available_episode / get_next_season_episode on     *)
(*             drawn directory contents                                     *)
(*   SpecCls   filter_episodes on drawn catalogs, bands and sampler results *)
(*   SpecScan  bluray parse_titles / dvd scan_disc on drawn engine output   *)
(*   Spec      main and process_tv_show of both programs, lookup and scan   *)
(*             to the completion message and the exit status                *)
(*   SpecComp  process_tv_show of the DVD program in compilation mode       *)
(*   SpecRip   the engine processes of rip_title, of the samples and of the *)
(*             Blu-ray rip loop, with its progress poller and the           *)
(*             operator's interrupt; FairSpecRip adds fairness              *)
(***************************************************************************)
EXTENDS Integers, Sequences, FiniteSets, TLC

VARIABLES
    pc,         \* control point of the specification's program
    fs,         \* directory id -> set of file names S<ss>E<ee>.mkv in it
    dirs,       \* the season directories that exist
    args,       \* the arguments / inputs of the call under check
    res,        \* the result of the last call
    run         \* the locals of process_tv_show (record), or NoRun

vars == <<pc, fs, dirs, args, res, run>>

(***************************************************************************)
(* Bounds of the model.                                                     *)
(***************************************************************************)
\* highest episode number among the files present before a call
MaxEpisode == 4
\* highest season number a call is made for
MaxSeason == 2
\* calls of get_next_season_episode in one SpecSeq behaviour
MaxCalls == 2

NoRun == [idle |-> TRUE]
NoRes == [none |-> TRUE]

(***************************************************************************)
(* Small helpers.                                                           *)
(***************************************************************************)
SetMax(S) == CHOOSE x \in S : \A y \in S : y <= x

SetMin(S) == CHOOSE x \in S : \A y \in S : x <= y

(***************************************************************************)
(* File names.  A name is the pair of digit strings of "S<s>E<e>.mkv":      *)
(* the glob f"S{season_num:02d}E*.mkv" and the regex                        *)
(* rf"S{season_num:02d}E(\d+)\.mkv" compare the season text literally and   *)
(* read the episode text with int().                                        *)
(***************************************************************************)
RECURSIVE Digits(_)
Digits(n) == IF n < 10 THEN <<n>> ELSE Append(Digits(n \div 10), n % 10)

\* f"{n:02d}"
Fmt02(n) == IF n < 10 THEN <<0, n>> ELSE Digits(n)

RECURSIVE ParseInt(_)
\* int(match.group(1))
ParseInt(ds) ==
    IF Len(ds) = 0 THEN 0
    ELSE 10 * ParseInt(SubSeq(ds, 1, Len(ds) - 1)) + ds[Len(ds)]

\* f"S{season:02d}E{episode:02d}.mkv"
EpisodeFile(season, episode) == [s |-> Fmt02(season), e |-> Fmt02(episode)]

\* a file some other tool left behind: "S<season:02d>E<episode>.mkv", unpadded
UnpaddedFile(season, episode) == [s |-> Fmt02(season), e |-> Digits(episode)]

(***************************************************************************)
(* EpisodeSequencer.                                                        *)
(***************************************************************************)
\* existing: the episode numbers of the files of `season` in a directory
ExistingEpisodes(files, season) ==
    {ParseInt(f.e) : f \in {g \in files : g.s = Fmt02(season) /\ Len(g.e) > 0}}

FirstGapMaxPlusOne(files, season) ==
    LET existing == ExistingEpisodes(files, season)
    IN  IF existing = {} THEN 1 ELSE SetMax(existing) + 1

find_next_available_episode(files, season) ==
    LET existing == ExistingEpisodes(files, season)
    IN  IF existing = {} THEN 1
        ELSE LET gaps == {i \in 1..(SetMax(existing) + 1) : i \notin existing}
             IN  IF gaps # {} THEN SetMin(gaps) ELSE SetMax(existing) + 1

MkdirNoExistOk(dirset, d) == [ok |-> d \notin dirset, dirs |-> dirset \cup {d}]

\* current_dir.mkdir(exist_ok=True): the parent is the show directory, which exists
Mkdir(dirset, d) == [ok |-> TRUE, dirs |-> dirset \cup {d}]

FilesOf(fsys, dirset, d) == IF d \in dirset THEN fsys[d] ELSE {}

NextSlotNoRollover(fsys, dirset, output_dir, season_num, max_episodes) ==
    LET e == find_next_available_episode(FilesOf(fsys, dirset, output_dir), season_num)
    IN  [ok |-> TRUE, season |-> season_num, episode |-> e,
         path |-> [dir |-> output_dir, name |-> EpisodeFile(season_num, e)],
         dirs |-> dirset]

\* one pass of the `while True` body, which always ends in `return`
get_next_season_episode(fsys, dirset, output_dir, season_num, max_episodes) ==
    LET first == find_next_available_episode(FilesOf(fsys, dirset, output_dir), season_num)
    IN  IF first > max_episodes
        THEN LET current_season == season_num + 1
                 current_dir == current_season
                 made == Mkdir(dirset, current_dir)
                 e == find_next_available_episode(
                          FilesOf(fsys, made.dirs, current_dir), current_season)
             IN  [ok |-> made.ok, season |-> current_season, episode |-> e,
                  path |-> [dir |-> current_dir, name |-> EpisodeFile(current_season, e)],
                  dirs |-> made.dirs]
        ELSE [ok |-> TRUE, season |-> season_num, episode |-> first,
              path |-> [dir |-> output_dir, name |-> EpisodeFile(season_num, first)],
              dirs |-> dirset]

\* the file a finished rip leaves at `path`
CreateFile(fsys, path) == [fsys EXCEPT ![path.dir] = @ \cup {path.name}]

PathExists(fsys, dirset, path) == path.name \in FilesOf(fsys, dirset, path.dir)

(***************************************************************************)
(* SpecSeq: the sequencer on drawn directory contents.  The output          *)
(* directory is "Season <HomeDir>"; directory k is its sibling "Season k".  *)
(***************************************************************************)
HomeDir == 1

DirIds == 1..(MaxSeason + 2)

\* files a directory may hold before the call, for the season asked for
OwnFiles(season) ==
    {EpisodeFile(season, e) : e \in 1..MaxEpisode} \cup {UnpaddedFile(season, 1)}

SeqInit ==
    /\ pc = "seq_ready"
    /\ run = NoRun
    /\ res = NoRes
    /\ \E season \in 1..MaxSeason, max \in 0..MaxEpisode :
         /\ args = [output_dir |-> HomeDir, season_num |-> season,
                    max_episodes |-> max, calls |-> 0]
         /\ \E home \in SUBSET (OwnFiles(season) \cup {EpisodeFile(season + 1, 1)}),
               next \in SUBSET {EpisodeFile(season + 1, e) : e \in 1..MaxEpisode},
               nextExists \in BOOLEAN :
              /\ nextExists \/ next = {}
              /\ dirs = {HomeDir} \cup (IF nextExists THEN {season + 1} ELSE {})
              /\ fs = [d \in DirIds |->
                         IF d = HomeDir THEN home
                         ELSE IF d = season + 1 /\ nextExists THEN next ELSE {}]

\* one call of get_next_season_episode
SeqCall ==
    /\ pc = "seq_ready"
    /\ LET r == get_next_season_episode(fs, dirs, args.output_dir,
                                        args.season_num, args.max_episodes)
       IN  /\ res' = [r EXCEPT !.dirs = dirs]   \* res.dirs: the directories before the call
           /\ dirs' = r.dirs
           /\ pc' = IF r.ok THEN "seq_done" ELSE "seq_error"
    /\ args' = [args EXCEPT !.calls = @ + 1]
    /\ UNCHANGED <<fs, run>>

\* the rip writes the file of the slot; the caller asks for the next slot
\* with the season the last call returned
SeqFill ==
    /\ pc = "seq_done"
    /\ args.calls < MaxCalls
    /\ fs' = CreateFile(fs, res.path)
    /\ args' = [args EXCEPT !.season_num = res.season]
    /\ pc' = "seq_ready"
    /\ UNCHANGED <<dirs, res, run>>

\* one call of find_next_available_episode on an existing directory
SeqFind ==
    /\ pc = "seq_ready"
    /\ args.calls = 0
    /\ \E d \in dirs :
         res' = [find |-> find_next_available_episode(fs[d], args.season_num),
                 dir |-> d, season |-> args.season_num]
    /\ pc' = "seq_found"
    /\ UNCHANGED <<fs, dirs, args, run>>

SeqNext == SeqCall \/ SeqFill \/ SeqFind

SpecSeq == SeqInit /\ [][SeqNext]_vars

(***************************************************************************)
(* DurationClassifier: filter_episodes.  A catalog is a function from title *)
(* number to the title's record; a dict iterates in insertion order, which  *)
(* for a scan is the order the engine lists the titles in, ascending title  *)
(* number.  episode_ranges is the set of its (min_sec, max_sec) values.     *)
(* The sampler's answer for a title is its sample's byte size, 0 for the    *)
(* (None, 0) of a failed or timed-out sample.                               *)
(***************************************************************************)
\* titles a drawn catalog may hold
MaxTitles == 3
\* distinct sample byte sizes the sampler may report
MaxFingerprint == 2

\* DEFAULT_EPISODE_RANGES.values()
DEFAULT_EPISODE_RANGES == {<<650, 705>>, <<600, 649>>, <<1260, 1440>>}

InEveryRange(duration, episode_ranges) ==
    \A r \in episode_ranges : r[1] <= duration /\ duration <= r[2]

\* min_sec <= duration <= max_sec for some range
InAnyRange(duration, episode_ranges) ==
    \E r \in episode_ranges : r[1] <= duration /\ duration <= r[2]

\* len(info['chapters']) of a DVD title, info['chapters'] of a Blu-ray title
ChapterCount(info) == info.chapters

\* first pass: the numbers of the titles whose duration is in some range
ValidTitles(titles, episode_ranges) ==
    {n \in DOMAIN titles : InAnyRange(titles[n].duration, episode_ranges)}

\* duration_groups[duration], as the set of its title numbers
DurationGroup(titles, episode_ranges, duration) ==
    {n \in ValidTitles(titles, episode_ranges) : titles[n].duration = duration}

RECURSIVE SortedAscending(_)
SortedAscending(S) ==
    IF S = {} THEN <<>> ELSE <<SetMin(S)>> \o SortedAscending(S \ {SetMin(S)})

SortedByNumber(titles, group) == SortedAscending(group)

RECURSIVE SortedBy(_, _)
\* sorted(group, key=chapters, reverse=True): stable, so titles of equal
\* chapter count stay in the group's (ascending number) order
SortedBy(titles, group) ==
    IF group = {} THEN <<>>
    ELSE LET head == CHOOSE n \in group : \A m \in group \ {n} :
                        \/ ChapterCount(titles[n]) > ChapterCount(titles[m])
                        \/ /\ ChapterCount(titles[n]) = ChapterCount(titles[m])
                           /\ n < m
         IN  <<head>> \o SortedBy(titles, group \ {head})

SameSizeAccepted(sample_size, samples) == sample_size > 0

FailedAccepted(sample_size, samples) == sample_size \notin samples

\* `if sample_size > 0: if sample_size not in samples:`
IsUnique(sample_size, samples) == sample_size > 0 /\ sample_size \notin samples

RECURSIVE SampleGroup(_, _, _, _)
\* the `for num, info in sorted_group` loop: unique_titles
SampleGroup(order, sampleOf, samples, unique_titles) ==
    IF order = <<>> THEN unique_titles
    ELSE LET num == Head(order)
             sample_size == sampleOf[num]
         IN  IF IsUnique(sample_size, samples)
             THEN SampleGroup(Tail(order), sampleOf, samples \cup {sample_size},
                              unique_titles \cup {num})
             ELSE SampleGroup(Tail(order), sampleOf, samples, unique_titles)

\* the titles sample_title is called for, in call order: the groups in
\* ascending duration, each group of two or more in its sorted order
RECURSIVE SampleOrder(_, _, _)
SampleOrder(titles, episode_ranges, durations) ==
    IF durations = {} THEN <<>>
    ELSE LET d == SetMin(durations)
             group == DurationGroup(titles, episode_ranges, d)
         IN  (IF Cardinality(group) >= 2 THEN SortedBy(titles, group) ELSE <<>>)
             \o SampleOrder(titles, episode_ranges, durations \ {d})

GroupDurations(titles, episode_ranges) ==
    {titles[n].duration : n \in ValidTitles(titles, episode_ranges)}

ToSample(titles, episode_ranges) ==
    {n \in ValidTitles(titles, episode_ranges) :
        Cardinality(DurationGroup(titles, episode_ranges, titles[n].duration)) >= 2}

\* second pass: the numbers of episode_titles
AcceptedTitles(titles, episode_ranges, sampleOf) ==
    UNION { LET group == DurationGroup(titles, episode_ranges, d)
            IN  IF Cardinality(group) >= 2
                THEN SampleGroup(SortedBy(titles, group), sampleOf, {}, {})
                ELSE group
          : d \in GroupDurations(titles, episode_ranges) }

\* filter_episodes: episode_titles, with the sample_title calls it made.
\* min_length and max_length are only logged.
filter_episodes(titles, min_length, max_length, episode_ranges, sampleOf) ==
    LET accepted == AcceptedTitles(titles, episode_ranges, sampleOf)
    IN  [episode_titles |-> [n \in accepted |-> titles[n]],
         sampled |-> SampleOrder(titles, episode_ranges,
                                 GroupDurations(titles, episode_ranges))]

(***************************************************************************)
(* SpecCls: the classifier on drawn catalogs, bands and sampler answers.    *)
(***************************************************************************)
\* durations of the drawn titles: one per default band, one outside all
DrawnDurations == {630, 660, 1300, 2000}

DrawnChapters == {1, 2}

DrawnRanges == {DEFAULT_EPISODE_RANGES, {<<600, 1440>>}, {<<650, 705>>}}

DrawnCatalogs ==
    UNION { [ids -> [duration : DrawnDurations, chapters : DrawnChapters]]
            : ids \in SUBSET (1..MaxTitles) }

ClsInit ==
    /\ pc = "cls_ready"
    /\ run = NoRun
    /\ res = NoRes
    /\ fs = [d \in DirIds |-> {}]
    /\ dirs = {}
    /\ \E titles \in DrawnCatalogs, episode_ranges \in DrawnRanges :
         args = [titles |-> titles, episode_ranges |-> episode_ranges]

\* one call of filter_episodes; the sampler answers as the disc and engine decide
ClsFilter ==
    /\ pc = "cls_ready"
    /\ \E answers \in [ToSample(args.titles, args.episode_ranges) -> 0..MaxFingerprint] :
         LET sampleOf == [n \in DOMAIN args.titles |->
                            IF n \in DOMAIN answers THEN answers[n] ELSE 0]
             r == filter_episodes(args.titles, 0, 0, args.episode_ranges, sampleOf)
         IN  res' = [episode_titles |-> r.episode_titles, sampled |-> r.sampled,
                     sizes |-> answers]
    /\ pc' = "cls_done"
    /\ UNCHANGED <<fs, dirs, args, run>>

ClsNext == ClsFilter

SpecCls == ClsInit /\ [][ClsNext]_vars

(***************************************************************************)
(* TitleCatalog.  Engine output is a sequence of lines; a line is a record  *)
(* of what the parser reads from it.  A duration text HH:MM:SS is the       *)
(* triple <<h, m, s>>.                                                      *)
(***************************************************************************)
\* lines of engine output a drawn scan may hold
MaxLines == 4

\* h * 3600 + m * 60 + s
HmsSeconds(hms) == hms[1] * 3600 + hms[2] * 60 + hms[3]

\* bluray_ripper.parse_titles: `if v['duration'] >= 120`
MIN_TITLE_SECONDS == 120

\* dvd_ripper_windows.scan_disc: `duration_min >= 0.25`, in seconds
DVD_MIN_TITLE_SECONDS == 15

\* dvd_ripper_windows.scan_disc: `c[1] > 15`
DVD_MIN_CHAPTER_SECONDS == 15

\* the record parse_titles creates for a title id it has not seen
NewBdTitle == [duration |-> 0, chapters |-> 0]

\* one TINFO line: code 8 chapters, code 9 duration; other codes and the
\* codes of name, size and file name change no field the pipeline reads
BdApplyLine(titles, line) ==
    IF line.tag # "TINFO" THEN titles
    ELSE LET known == IF line.id \in DOMAIN titles THEN titles
                      ELSE [n \in DOMAIN titles \cup {line.id} |->
                              IF n \in DOMAIN titles THEN titles[n] ELSE NewBdTitle]
         IN  IF line.code = 8 THEN [known EXCEPT ![line.id].chapters = line.value]
             ELSE IF line.code = 9
                  THEN [known EXCEPT ![line.id].duration = HmsSeconds(line.value)]
                  ELSE known

RECURSIVE BdParseLines(_, _)
BdParseLines(lines, titles) ==
    IF lines = <<>> THEN titles
    ELSE BdParseLines(Tail(lines), BdApplyLine(titles, Head(lines)))

Restrict(f, S) == [x \in S |-> f[x]]

KeepLongerThanMin(titles) ==
    Restrict(titles, {n \in DOMAIN titles : titles[n].duration > MIN_TITLE_SECONDS})

KeepAll(titles) == titles

\* filtered_titles of parse_titles
KeepMinDuration(titles) ==
    Restrict(titles, {n \in DOMAIN titles : titles[n].duration >= MIN_TITLE_SECONDS})

\* bluray_ripper.parse_titles
parse_titles(output) == KeepMinDuration(BdParseLines(output, <<>>))

\* the parser state of dvd_ripper_windows.scan_disc
DvdParseStart(titles) == [titles |-> titles, current_title |-> 0, current_section |-> "none"]

\* one line of HandBrake's scan listing; current_title 0 is `not current_title`
DvdApplyLine(st, line) ==
    IF line.tag = "title"
    THEN [titles |-> [n \in DOMAIN st.titles \cup {line.num} |->
                        IF n = line.num THEN [duration |-> 0, chapters |-> <<>>]
                        ELSE st.titles[n]],
          current_title |-> line.num, current_section |-> "none"]
    ELSE IF st.current_title = 0 THEN st
    ELSE IF line.tag = "chapters" THEN [st EXCEPT !.current_section = "chapters"]
    ELSE IF line.tag = "audio" THEN [st EXCEPT !.current_section = "audio"]
    ELSE IF line.tag = "duration"
         THEN [st EXCEPT !.titles[st.current_title].duration = HmsSeconds(line.value)]
    ELSE IF line.tag = "chapter" /\ st.current_section = "chapters"
              /\ HmsSeconds(line.value) > 0
         THEN [st EXCEPT !.titles[st.current_title].chapters =
                            Append(@, <<line.num, HmsSeconds(line.value)>>)]
    ELSE st

RECURSIVE DvdParseLines(_, _)
DvdParseLines(lines, st) ==
    IF lines = <<>> THEN st
    ELSE DvdParseLines(Tail(lines), DvdApplyLine(st, Head(lines)))

\* valid_chapters: [c for c in info['chapters'] if c[1] > 15]
ValidChapters(chapters) == SelectSeq(chapters, LAMBDA c : c[2] > DVD_MIN_CHAPTER_SECONDS)

\* filtered_titles of scan_disc, each with its chapters cut to the valid ones
DvdFilterTitles(titles) ==
    LET keep == {n \in DOMAIN titles :
                    /\ titles[n].duration >= DVD_MIN_TITLE_SECONDS
                    /\ ValidChapters(titles[n].chapters) # <<>>}
    IN  [n \in keep |-> [titles[n] EXCEPT !.chapters = ValidChapters(@)]]

\* max_retries of dvd_ripper_windows.scan_disc
SCAN_MAX_RETRIES == 3

(***************************************************************************)
(* SpecScan: the two scans on drawn engine output.                          *)
(***************************************************************************)
DrawnHms == {<<0, 0, 10>>, <<0, 1, 0>>, <<0, 2, 0>>, <<0, 11, 0>>}

DrawnBdLines ==
    {[tag |-> "TINFO", id |-> i, code |-> 9, value |-> v] : i \in {0, 1}, v \in DrawnHms}
    \cup {[tag |-> "TINFO", id |-> i, code |-> c, value |-> 2] : i \in {0, 1}, c \in {8, 30}}
    \cup {[tag |-> "TCOUNT", id |-> 0, code |-> 0, value |-> 2]}

DrawnDvdLines ==
    {[tag |-> "title", num |-> 1, value |-> <<>>],
     [tag |-> "chapters", num |-> 0, value |-> <<>>]}
    \cup {[tag |-> "duration", num |-> 0, value |-> v] : v \in DrawnHms}
    \cup {[tag |-> "chapter", num |-> 1, value |-> v] : v \in DrawnHms \ {<<0, 11, 0>>}}

SeqsUpTo(S, n) == UNION {[1..k -> S] : k \in 0..n}

\* cmd of scan_disc as each pass of the retry loop builds it
ScanCmd == <<"HandBrakeCLI", "--verbose", "1", "--scan", "--title", "0",
             "--no-dvdnav", "-i", "device">>

\* `if attempt == 1 and not titles: cmd[4] = '--dvdnav'`, after the engine ran;
\* cmd[4] is the fifth element
ScanCmdAfterRun(cmd, attempt, titles) ==
    IF attempt = 1 /\ DOMAIN titles = {} THEN [cmd EXCEPT ![5] = "--dvdnav"] ELSE cmd

ScanInit ==
    /\ run = NoRun
    /\ res = NoRes
    /\ fs = [d \in DirIds |-> {}]
    /\ dirs = {}
    /\ \/ /\ pc = "bd_scan"
          /\ \E output \in SeqsUpTo(DrawnBdLines, MaxLines - 1) :
               args = [output |-> output, attempt |-> 0, titles |-> <<>>,
                       cmd |-> <<>>, launched |-> <<>>]
       \/ /\ pc = "dvd_scan"
          /\ \E output \in SeqsUpTo(DrawnDvdLines, MaxLines) :
               args = [output |-> output, attempt |-> 0, titles |-> <<>>,
                       cmd |-> <<>>, launched |-> <<>>]

\* bluray_ripper.main: titles = parse_titles(result.stdout)
ScanBdParse ==
    /\ pc = "bd_scan"
    /\ res' = [titles |-> parse_titles(args.output),
               parsed |-> BdParseLines(args.output, <<>>)]
    /\ pc' = IF DOMAIN parse_titles(args.output) # {} THEN "bd_scanned" ELSE "bd_no_titles"
    /\ UNCHANGED <<fs, dirs, args, run>>

\* one pass of the `for attempt in range(max_retries)` loop of scan_disc: cmd
\* is built, the engine is run with it (args.launched) and prints its listing,
\* or the run times out or fails
ScanDvdAttempt ==
    /\ pc = "dvd_scan"
    /\ args.attempt < SCAN_MAX_RETRIES
    /\ \E engine \in {"listing", "timeout"} :
         LET st == IF engine = "listing"
                   THEN DvdParseLines(args.output, DvdParseStart(args.titles))
                   ELSE DvdParseStart(args.titles)
             filtered_titles == DvdFilterTitles(st.titles)
             last == args.attempt + 1 = SCAN_MAX_RETRIES
             cmd == ScanCmd
         IN  /\ args' = [args EXCEPT !.attempt = @ + 1, !.titles = st.titles,
                                     !.launched = Append(@, cmd),
                                     !.cmd = IF engine = "listing"
                                             THEN ScanCmdAfterRun(cmd, args.attempt,
                                                                  args.titles)
                                             ELSE cmd]
             /\ IF engine = "listing" /\ DOMAIN filtered_titles # {}
                THEN /\ res' = [titles |-> filtered_titles, parsed |-> st.titles]
                     /\ pc' = "dvd_scanned"
                ELSE /\ res' = res
                     /\ pc' = IF last THEN "dvd_scan_error" ELSE "dvd_scan"
    /\ UNCHANGED <<fs, dirs, run>>

ScanNext == ScanBdParse \/ ScanDvdAttempt

SpecScan == ScanInit /\ [][ScanNext]_vars

(***************************************************************************)
(* The discs of Spec.  A disc is the sequence of its titles, title n at     *)
(* position n; fp is the byte size a sample of the title's content has.     *)
(* The engines list a disc as the lines the scans parse.                    *)
(***************************************************************************)
\* process_tv_show passes (the first and the operator's "Try again?") in one behaviour
MaxPasses == 2

SecondsHms(d) == <<d \div 3600, (d % 3600) \div 60, d % 60>>

\* titles of the half-episode band with the same or with different content,
\* and a title outside every band
HalfEpisode(fp) == [duration |-> 660, chapters |-> 1, fp |-> fp]

LongTitle == [duration |-> 2000, chapters |-> 2, fp |-> 1]

\* a title both scans drop: shorter than either minimum, its one chapter too
ShortTitle == [duration |-> 10, chapters |-> 1, fp |-> 1]

DrawnDiscs ==
    {<<>>, <<ShortTitle>>, <<ShortTitle, HalfEpisode(1)>>, <<LongTitle>>, <<HalfEpisode(1)>>,
     <<HalfEpisode(1), HalfEpisode(1)>>, <<HalfEpisode(1), HalfEpisode(2)>>,
     <<LongTitle, HalfEpisode(1), HalfEpisode(2)>>,
     <<HalfEpisode(1), HalfEpisode(2), HalfEpisode(1)>>}

DiscTitles == SetMax({Len(disc) : disc \in DrawnDiscs})

RECURSIVE DvdChapterLines(_, _, _)
DvdChapterLines(k, count, seconds) ==
    IF k > count THEN <<>>
    ELSE <<[tag |-> "chapter", num |-> k, value |-> SecondsHms(seconds)]>>
         \o DvdChapterLines(k + 1, count, seconds)

RECURSIVE DvdListing(_, _)
\* HandBrakeCLI --scan: "+ title n:", "+ duration:", "+ chapters:", "+ k: duration"
DvdListing(disc, n) ==
    IF n > Len(disc) THEN <<>>
    ELSE <<[tag |-> "title", num |-> n, value |-> <<>>],
           [tag |-> "duration", num |-> 0, value |-> SecondsHms(disc[n].duration)],
           [tag |-> "chapters", num |-> 0, value |-> <<>>]>>
         \o DvdChapterLines(1, disc[n].chapters, disc[n].duration \div disc[n].chapters)
         \o DvdListing(disc, n + 1)

RECURSIVE BdListing(_, _)
\* makemkvcon -r info: TINFO:n,9,0,"H:MM:SS" and TINFO:n,8,0,"count"
BdListing(disc, n) ==
    IF n > Len(disc) THEN <<>>
    ELSE <<[tag |-> "TINFO", id |-> n, code |-> 9, value |-> SecondsHms(disc[n].duration)],
           [tag |-> "TINFO", id |-> n, code |-> 8, value |-> disc[n].chapters]>>
         \o BdListing(disc, n + 1)

\* dvd_ripper_windows.scan_disc on a listing: filtered_titles, chapters as their count
scan_disc(output) ==
    LET filtered_titles == DvdFilterTitles(DvdParseLines(output, DvdParseStart(<<>>)).titles)
    IN  [n \in DOMAIN filtered_titles |->
            [duration |-> filtered_titles[n].duration,
             chapters |-> Len(filtered_titles[n].chapters)]]

(***************************************************************************)
(* RuntimeRangeResolver.                                                    *)
(***************************************************************************)
\* what the metadata service may hold for a season: max(episode_numbers)
\* (0: no episode numbers) and the per-episode runtimes, in minutes
DrawnSeasons ==
    {[episode_count |-> 0, runtimes |-> {45}],
     [episode_count |-> 1, runtimes |-> {11}],
     [episode_count |-> 2, runtimes |-> {}]}

\* dvd get_tvdb_info: `if not runtimes: runtimes = [30]`
get_tvdb_info(episode_count, runtimes) ==
    LET rt == IF runtimes = {} THEN {30} ELSE runtimes
    IN  [episode_count |-> episode_count, min_length |-> SetMin(rt),
         max_length |-> SetMax(rt)]

\* what a lookup of the DVD program may answer: a show_info, or DVDError
DvdLookups ==
    {[ok |-> TRUE, kind |-> IF h.runtimes = {} THEN "nodata" ELSE "data",
      info |-> get_tvdb_info(h.episode_count, h.runtimes)] : h \in DrawnSeasons}
    \cup {[ok |-> FALSE, kind |-> "error", info |-> get_tvdb_info(0, {})]}

ScanNeverFailed(titles) == FALSE

\* `if not filtered_titles` of scan_disc after its attempts, `if not titles` of
\* bluray main: the scan result is a DVDError / BluRayError
ScanFailed(titles) == DOMAIN titles = {}

\* the locals of a fresh call of process_tv_show (DVD) or main (Blu-ray);
\* pass and any_ripped are the model's record of the whole disc run
FreshRun(pipeline, pass, any_ripped) ==
    [pipeline |-> pipeline, pass |-> pass, season_num |-> HomeDir,
     current_season |-> HomeDir,
     show_info |-> get_tvdb_info(0, {}), titles |-> <<>>,
     selected |-> {}, forced |-> {}, queue |-> <<>>, assigned |-> <<>>,
     ripped |-> {}, files_created |-> FALSE,
     min_runtime |-> 0, max_runtime |-> 0, start_episode |-> 0,
     lookup |-> "none", failed |-> {}, any_ripped |-> any_ripped,
     completed |-> FALSE, exit_status |-> 0]

(***************************************************************************)
(* Spec: process_tv_show of the DVD program, episode mode.                  *)
(***************************************************************************)
\* every slot takes at most one step to the next season directory
PipelineDirIds == 1..(HomeDir + MaxPasses * DiscTitles + 1)

Slot(title, r) == [title |-> title, season |-> r.season, episode |-> r.episode,
                   path |-> r.path]

\* res in Spec: for every title of the disc, the season and episode the
\* sequencer gave it the first time it was assigned in this program run
FirstAssigned == IF res = NoRes THEN {} ELSE res.first

Remember(slot) ==
    IF \E f \in FirstAssigned : f.title = slot.title
    THEN res
    ELSE [first |-> FirstAssigned \cup
                     {[title |-> slot.title, season |-> slot.season,
                       episode |-> slot.episode]}]

DvdInit ==
    /\ pc = "dvd_lookup"
    /\ res = NoRes
    /\ \E disc \in DrawnDiscs : args = [disc |-> disc, episode_ranges |-> DEFAULT_EPISODE_RANGES]
    /\ \E home \in {{}, {EpisodeFile(HomeDir, 1)}, {EpisodeFile(HomeDir, 2)}},
          next \in {"absent", "one"} :
         /\ dirs = {HomeDir} \cup (IF next = "absent" THEN {} ELSE {HomeDir + 1})
         /\ fs = [d \in PipelineDirIds |->
                    IF d = HomeDir THEN home
                    ELSE IF d = HomeDir + 1 /\ next = "one"
                         THEN {EpisodeFile(HomeDir + 1, 1)} ELSE {}]
    /\ run = FreshRun("dvd", 1, FALSE)

\* show_info = get_tvdb_info(show_name, season_num), before the retry loop
DvdLookup ==
    /\ pc = "dvd_lookup"
    /\ \E answer \in DvdLookups :
         IF answer.ok
         THEN /\ run' = [run EXCEPT !.show_info = answer.info, !.lookup = answer.kind]
              /\ pc' = "dvd_scan"
         ELSE /\ run' = [run EXCEPT !.lookup = answer.kind]
              /\ pc' = "dvd_main_error"
    /\ UNCHANGED <<fs, dirs, args, res>>

\* titles = scan_disc(device): the catalog, or DVDError after the attempts
DvdScan ==
    /\ pc = "dvd_scan"
    /\ \E engine \in {"listing", "timeout"} :
         LET titles == scan_disc(DvdListing(args.disc, 1))
         IN  IF engine = "listing" /\ ~ScanFailed(titles)
             THEN /\ run' = [run EXCEPT !.titles = titles]
                  /\ pc' = "dvd_filter"
             ELSE /\ run' = run
                  /\ pc' = "dvd_error"
    /\ UNCHANGED <<fs, dirs, args, res>>

\* episode_titles = filter_episodes(...); a sample of a title has the size of
\* its content, or fails
DvdFilter ==
    /\ pc = "dvd_filter"
    /\ \E answers \in [ToSample(run.titles, args.episode_ranges) -> BOOLEAN] :
         LET sampleOf == [n \in DOMAIN run.titles |->
                            IF n \in DOMAIN answers /\ answers[n]
                            THEN args.disc[n].fp ELSE 0]
             r == filter_episodes(run.titles, run.show_info.min_length,
                                  run.show_info.max_length, args.episode_ranges, sampleOf)
             episode_titles == DOMAIN r.episode_titles
         IN  IF episode_titles = {}
             THEN /\ run' = [run EXCEPT !.selected = {}, !.queue = <<>>,
                                        !.assigned = <<>>]
                  /\ pc' = "dvd_error"
             ELSE /\ run' = [run EXCEPT !.selected = episode_titles,
                                        !.queue = SortedAscending(episode_titles),
                                        !.assigned = <<>>,
                                        !.ripped = {}, !.failed = {},
                                        !.current_season = run.season_num,
                                        !.files_created = FALSE]
                  /\ pc' = "dvd_slot"
    /\ UNCHANGED <<fs, dirs, args, res>>

\* the head of one pass of `for title_num in sorted(episode_titles.keys())`:
\* the next slot, and the lookup of the new season when the season changed
DvdNextSlot ==
    /\ pc = "dvd_slot"
    /\ LET r == get_next_season_episode(fs, dirs, HomeDir, run.season_num,
                                        run.show_info.episode_count)
           slotted == [run EXCEPT !.season_num = r.season,
                                  !.assigned = Append(@, Slot(Head(run.queue), r))]
       IN  /\ dirs' = r.dirs
           /\ IF r.season # run.current_season
              THEN \E answer \in DvdLookups :
                     IF answer.ok
                     THEN /\ run' = [slotted EXCEPT !.show_info = answer.info,
                                                    !.lookup = answer.kind,
                                                    !.current_season = r.season]
                          /\ pc' = "dvd_rip"
                     ELSE /\ run' = [slotted EXCEPT !.lookup = answer.kind]
                          /\ pc' = "dvd_error"
              ELSE /\ run' = slotted
                   /\ pc' = "dvd_rip"
           /\ res' = Remember(Slot(Head(run.queue), r))
    /\ UNCHANGED <<fs, args>>

\* rip_title(device, title_num, output_file, ...): True with the file written,
\* or DVDError once its attempts are used up
DvdRip ==
    /\ pc = "dvd_rip"
    /\ LET slot == run.assigned[Len(run.assigned)]
       IN  \E ok \in BOOLEAN :
             IF ok
             THEN /\ fs' = CreateFile(fs, slot.path)
                  /\ run' = [run EXCEPT !.queue = Tail(@), !.files_created = TRUE,
                                        !.any_ripped = TRUE,
                                        !.ripped = @ \cup {slot}]
                  /\ pc' = IF Len(run.queue) > 1 THEN "dvd_slot" ELSE "dvd_done"
             ELSE /\ fs' = fs
                  /\ run' = [run EXCEPT !.failed = @ \cup {slot.title}]
                  /\ pc' = "dvd_error"
    /\ UNCHANGED <<dirs, args, res>>

\* except DVDError: "Try again?" - yes loops to the scan, no returns False
DvdTryAgain ==
    /\ pc = "dvd_error"
    /\ \/ /\ run.pass < MaxPasses
          /\ run' = [run EXCEPT !.pass = @ + 1]
          /\ pc' = "dvd_scan"
       \/ /\ run' = run
          /\ pc' = "dvd_failed"
    /\ UNCHANGED <<fs, dirs, args, res>>

\* main of the DVD program around process_tv_show: after True "Insert next
\* disc and continue?", after False or a DVDError "Try again?"; every way out
\* of its loop prints "Ripping complete!"
DvdMain ==
    /\ pc \in {"dvd_done", "dvd_failed", "dvd_main_error"}
    /\ \/ /\ pc # "dvd_done"
          /\ run.pass < MaxPasses
          /\ run' = FreshRun("dvd", run.pass + 1, run.any_ripped)
          /\ pc' = "dvd_lookup"
       \/ /\ run' = run
          /\ pc' = "dvd_complete"
    /\ UNCHANGED <<fs, dirs, args, res>>

DvdNext ==
    \/ DvdMain
    \/ DvdLookup
    \/ DvdScan
    \/ DvdFilter
    \/ DvdNextSlot
    \/ DvdRip
    \/ DvdTryAgain

(***************************************************************************)
(* Spec: main and process_tv_show of the Blu-ray program.                   *)
(***************************************************************************)
\* margin_percent of filter_titles_by_duration
MARGIN_PERCENT == 20

\* the fallback range of get_tvdb_episode_info, 30 * 60 and 60 * 60 seconds
FALLBACK_MIN_RUNTIME == 1800

FALLBACK_MAX_RUNTIME == 3600

\* get_tvdb_episode_info: the season's runtimes in seconds, the fallback
\* when the season has none or the request failed
get_tvdb_episode_info(ok, runtimes) ==
    IF ok /\ runtimes # {}
    THEN [min_runtime |-> SetMin(runtimes) * 60, max_runtime |-> SetMax(runtimes) * 60]
    ELSE [min_runtime |-> FALLBACK_MIN_RUNTIME, max_runtime |-> FALLBACK_MAX_RUNTIME]

AboveMinWithMargin(duration, min_runtime, max_runtime, margin_percent) ==
    min_runtime * (100 - margin_percent) <= 100 * duration

\* min_with_margin <= duration <= max_with_margin, times 100
WithinMargin(duration, min_runtime, max_runtime, margin_percent) ==
    /\ min_runtime * (100 - margin_percent) <= 100 * duration
    /\ 100 * duration <= max_runtime * (100 + margin_percent)

filter_titles_by_duration(title_info, min_runtime, max_runtime, margin_percent) ==
    LET matching == {n \in DOMAIN title_info :
                        WithinMargin(title_info[n].duration, min_runtime, max_runtime,
                                     margin_percent)}
    IN  [matching_titles |-> matching, non_matching_titles |-> DOMAIN title_info \ matching]

LastEpisodeNumber(files, season_num) ==
    LET episode_numbers == ExistingEpisodes(files, season_num)
    IN  IF episode_numbers = {} THEN [found |-> FALSE, number |-> 0]
        ELSE [found |-> TRUE, number |-> SetMax(episode_numbers)]

\* get_next_episode_number: found FALSE is None
get_next_episode_number(files, season_num) ==
    LET episode_numbers == ExistingEpisodes(files, season_num)
    IN  IF episode_numbers = {} THEN [found |-> FALSE, number |-> 0]
        ELSE [found |-> TRUE, number |-> SetMax(episode_numbers) + 1]

\* starting episode numbers the operator may enter
DrawnStarts == {1, 2}

BdInit ==
    /\ pc = "bd_parse"
    /\ res = NoRes
    /\ \E disc \in DrawnDiscs : args = [disc |-> disc, episode_ranges |-> DEFAULT_EPISODE_RANGES]
    /\ dirs = {HomeDir}
    /\ \E home \in {{}, {EpisodeFile(HomeDir, 1)}, {EpisodeFile(HomeDir, 2)}} :
         fs = [d \in PipelineDirIds |-> IF d = HomeDir THEN home ELSE {}]
    /\ run = FreshRun("bd", 1, FALSE)

\* main: makemkvcon info, titles = parse_titles(result.stdout)
BdParse ==
    /\ pc = "bd_parse"
    /\ \E returncode \in {0, 1} :
         LET titles == parse_titles(BdListing(args.disc, 1))
         IN  IF returncode = 0 /\ ~ScanFailed(titles)
             THEN /\ run' = [run EXCEPT !.titles = titles]
                  /\ pc' = "bd_resolve"
             ELSE /\ run' = run
                  /\ pc' = "bd_error"
    /\ UNCHANGED <<fs, dirs, args, res>>

\* the head of the retry loop: min_runtime, max_runtime = get_tvdb_episode_info(...)
BdResolve ==
    /\ pc = "bd_resolve"
    /\ \E ok \in BOOLEAN, held \in DrawnSeasons :
         LET range == get_tvdb_episode_info(ok, held.runtimes)
         IN  run' = [run EXCEPT !.min_runtime = range.min_runtime,
                                !.max_runtime = range.max_runtime,
                                !.lookup = IF ~ok THEN "error"
                                           ELSE IF held.runtimes = {} THEN "nodata"
                                           ELSE "data",
                                !.selected = {}, !.forced = {}]
    /\ pc' = "bd_select"
    /\ UNCHANGED <<fs, dirs, args, res>>

\* filter_titles_by_duration, the operator's inclusions, the starting episode;
\* a 'b' or an input int() rejects goes back to the head of the loop
BdSelect ==
    /\ pc = "bd_select"
    /\ LET f == filter_titles_by_duration(run.titles, run.min_runtime, run.max_runtime,
                                          MARGIN_PERCENT)
           next_episode == get_next_episode_number(FilesOf(fs, dirs, HomeDir), run.season_num)
       IN  \E back \in BOOLEAN, additional \in SUBSET f.non_matching_titles,
              episode_input \in DrawnStarts :
             LET matching_titles == f.matching_titles \cup additional
                 start_episode == IF next_episode.found THEN next_episode.number
                                  ELSE episode_input
             IN  IF back /\ (f.non_matching_titles # {} \/ ~next_episode.found)
                 THEN /\ run' = run
                      /\ pc' = "bd_resolve"
                 ELSE IF matching_titles = {}
                 THEN /\ run' = run
                      /\ pc' = "bd_error"
                 ELSE /\ run' = [run EXCEPT !.selected = matching_titles,
                                            !.forced = additional,
                                            !.queue = SortedAscending(matching_titles),
                                            !.assigned = <<>>,
                                            !.ripped = {}, !.failed = {},
                                            !.start_episode = start_episode]
                      /\ pc' = "bd_slot"
    /\ UNCHANGED <<fs, dirs, args, res>>

EpisodeFromOne(start_episode, i) == 1 + i

\* episode_num = start_episode + i, i counting the sorted titles from 0
EpisodeNum(start_episode, i) == start_episode + i

\* episode_num = start_episode + i; output_file = output_dir / f"S..E...mkv"
BdNextSlot ==
    /\ pc = "bd_slot"
    /\ LET episode_num == EpisodeNum(run.start_episode, Len(run.assigned))
           output_file == [dir |-> HomeDir, name |-> EpisodeFile(run.season_num, episode_num)]
           slot == [title |-> Head(run.queue), season |-> run.season_num,
                    episode |-> episode_num, path |-> output_file]
       IN  /\ run' = [run EXCEPT !.assigned = Append(@, slot)]
           /\ res' = Remember(slot)
    /\ pc' = "bd_rip"
    /\ UNCHANGED <<fs, dirs, args>>

\* rip_title, process.wait(), find_latest_mkv and rename: the file is at
\* output_file or it is not; the loop goes on either way
BdRip ==
    /\ pc = "bd_rip"
    /\ LET slot == run.assigned[Len(run.assigned)]
       IN  \E renamed \in BOOLEAN :
             IF renamed
             THEN /\ fs' = CreateFile(fs, slot.path)
                  /\ run' = [run EXCEPT !.queue = Tail(@), !.files_created = TRUE,
                                        !.any_ripped = TRUE,
                                        !.ripped = @ \cup {slot}]
             ELSE /\ fs' = fs
                  /\ run' = [run EXCEPT !.queue = Tail(@),
                                        !.failed = @ \cup {slot.title}]
    /\ pc' = IF Len(run.queue) > 1 THEN "bd_slot" ELSE "bd_done"
    /\ UNCHANGED <<dirs, args, res>>

\* except BluRayError in main: "Try again?" - yes calls main() anew
BdTryAgain ==
    /\ pc = "bd_error"
    /\ \/ /\ run.pass < MaxPasses
          /\ run' = FreshRun("bd", run.pass + 1, run.any_ripped)
          /\ pc' = "bd_parse"
       \/ /\ run' = run
          /\ pc' = "bd_failed"
    /\ UNCHANGED <<fs, dirs, args, res>>

\* after the loop over the titles: "You're awesome!", and main's
\* "Ripping complete!"
BdComplete ==
    /\ pc = "bd_done"
    /\ pc' = "bd_complete"
    /\ UNCHANGED <<fs, dirs, args, res, run>>

\* the exit status sys.exit hands over for the frame of main that ends
\* normally (completed) or in its `except BluRayError` handler; pass counts
\* the frames: frame 1 is the program's, every "Try again?" calls main() in
\* the handler of the frame before, whose `cleanup_session(); sys.exit(1)`
\* runs when the call returns
ExitStatus(pass, completed) == IF completed /\ pass = 1 THEN 0 ELSE 1

\* the end of the Blu-ray process: main returns after "Ripping complete!", or
\* the operator answered no to "Try again?"
BdExit ==
    /\ pc \in {"bd_complete", "bd_failed"}
    /\ run' = [run EXCEPT !.completed = (pc = "bd_complete"),
                          !.exit_status = ExitStatus(run.pass, pc = "bd_complete")]
    /\ pc' = "bd_exit"
    /\ UNCHANGED <<fs, dirs, args, res>>

BdNext ==
    \/ BdExit
    \/ BdComplete
    \/ BdParse
    \/ BdResolve
    \/ BdSelect
    \/ BdNextSlot
    \/ BdRip
    \/ BdTryAgain

Init == DvdInit \/ BdInit

Next == DvdNext \/ BdNext

Spec == Init /\ [][Next]_vars

(***************************************************************************)
(* SpecComp: process_tv_show of the DVD program, rip mode "compilation".    *)
(* A title of the scan carries its chapters as (number, seconds) pairs.     *)
(* current_season is a local of process_tv_show: <<>> while no assignment   *)
(* to it has run, <<n>> once it holds n.                                    *)
(***************************************************************************)
\* filter_compilations: `duration_min > 90`, in seconds
COMPILATION_MIN_SECONDS == 5400

\* a title longer than 90 minutes whose four chapters are in the long band
CompilationTitle == [duration |-> 5600, chapters |-> 4, fp |-> 1]

DrawnCompDiscs ==
    {<<>>, <<HalfEpisode(1)>>, <<CompilationTitle>>, <<HalfEpisode(1), CompilationTitle>>}

\* byte sizes of a chapter's sample; 0: the (None, 0) of a failed sample
DrawnChapterSizes == {0, 5, 6}

\* filtered_titles of scan_disc, chapters kept as pairs
ScannedTitles(output) == DvdFilterTitles(DvdParseLines(output, DvdParseStart(<<>>)).titles)

\* valid_chapters of filter_compilations: the chapters in some episode range
EpisodeChapters(chapters, episode_ranges) ==
    SelectSeq(chapters, LAMBDA c : InAnyRange(c[2], episode_ranges))

\* compilation_titles of filter_compilations
CompilationTitles(titles, episode_ranges) ==
    LET keep == {n \in DOMAIN titles :
                    /\ titles[n].duration > COMPILATION_MIN_SECONDS
                    /\ EpisodeChapters(titles[n].chapters, episode_ranges) # <<>>}
    IN  [n \in keep |->
            [titles[n] EXCEPT !.chapters = EpisodeChapters(@, episode_ranges)]]

RECURSIVE UniqueChapters(_, _, _)
\* unique_chapters of one chosen title: the chapters whose sample has a size
\* above 0 that no earlier chapter of the title had
UniqueChapters(chapters, sizeOf, samples) ==
    IF chapters = <<>> THEN <<>>
    ELSE LET c == Head(chapters)
             sample_size == sizeOf[c[1]]
         IN  IF sample_size > 0 /\ sample_size \notin samples
             THEN <<c>> \o UniqueChapters(Tail(chapters), sizeOf, samples \cup {sample_size})
             ELSE UniqueChapters(Tail(chapters), sizeOf, samples)

\* chosen_titles of filter_compilations for the operator's choice of titles
ChosenTitles(compilation_titles, choice, sizeOf) ==
    LET unique(n) == UniqueChapters(compilation_titles[n].chapters, sizeOf[n], {})
        kept == {n \in choice \cap DOMAIN compilation_titles : unique(n) # <<>>}
    IN  [n \in kept |-> [compilation_titles[n] EXCEPT !.chapters = unique(n)]]

RECURSIVE RipOrder(_, _)
\* `for title_num, info in sorted(...)`, `for chapter_num, duration in info['chapters']`
RipOrder(chosen, order) ==
    IF order = <<>> THEN <<>>
    ELSE LET n == Head(order)
         IN  [k \in DOMAIN chosen[n].chapters |->
                 [title |-> n, chapter |-> chosen[n].chapters[k][1]]]
             \o RipOrder(chosen, Tail(order))

CompRun(pass) ==
    [rip_mode |-> "compilation", pass |-> pass, season_num |-> HomeDir,
     current_season |-> <<>>, show_info |-> get_tvdb_info(0, {}), titles |-> <<>>,
     queue |-> <<>>, assigned |-> <<>>, ripped |-> {}, files_created |-> FALSE,
     status |-> 0]

CompInit ==
    /\ pc = "comp_lookup"
    /\ res = NoRes
    /\ \E disc \in DrawnCompDiscs :
         args = [disc |-> disc, episode_ranges |-> DEFAULT_EPISODE_RANGES]
    /\ \E home \in {{}, {EpisodeFile(HomeDir, 1)}} :
         /\ dirs = {HomeDir}
         /\ fs = [d \in PipelineDirIds |-> IF d = HomeDir THEN home ELSE {}]
    /\ run = CompRun(1)

\* show_info = get_tvdb_info(show_name, season_num), before the retry loop
CompLookup ==
    /\ pc = "comp_lookup"
    /\ \E answer \in DvdLookups :
         IF answer.ok
         THEN /\ run' = [run EXCEPT !.show_info = answer.info]
              /\ pc' = "comp_scan"
         ELSE /\ run' = run
              /\ pc' = "comp_main_error"
    /\ UNCHANGED <<fs, dirs, args, res>>

\* titles = scan_disc(device)
CompScan ==
    /\ pc = "comp_scan"
    /\ \E engine \in {"listing", "timeout"} :
         LET titles == ScannedTitles(DvdListing(args.disc, 1))
         IN  IF engine = "listing" /\ ~ScanFailed(titles)
             THEN /\ run' = [run EXCEPT !.titles = titles]
                  /\ pc' = "comp_filter"
             ELSE /\ run' = run
                  /\ pc' = "comp_error"
    /\ UNCHANGED <<fs, dirs, args, res>>

\* compilation_titles = filter_compilations(titles, device, episode_ranges):
\* the operator is asked until the choice leaves a title with a unique chapter
CompFilter ==
    /\ pc = "comp_filter"
    /\ LET compilation_titles == CompilationTitles(run.titles, args.episode_ranges)
       IN  IF DOMAIN compilation_titles = {}
           THEN /\ run' = run
                /\ pc' = "comp_error"
           ELSE \E choice \in SUBSET DOMAIN run.titles,
                   sizeOf \in [DOMAIN compilation_titles ->
                                 [1..CompilationTitle.chapters -> DrawnChapterSizes]] :
                  LET chosen_titles == ChosenTitles(compilation_titles, choice, sizeOf)
                  IN  IF DOMAIN chosen_titles = {}
                      THEN UNCHANGED <<run, pc>>
                      ELSE /\ run' = [run EXCEPT
                                        !.queue = RipOrder(chosen_titles,
                                                     SortedAscending(DOMAIN chosen_titles)),
                                        !.assigned = <<>>, !.ripped = {},
                                        !.files_created = FALSE]
                           /\ pc' = "comp_chapter"
    /\ UNCHANGED <<fs, dirs, args, res>>

\* one pass of the loop over the chapters: get_next_season_episode, the test
\* `season_num != current_season` (UnboundLocalError while current_season was
\* never assigned), the lookup of a new season, rip_title
CompChapter ==
    /\ pc = "comp_chapter"
    /\ LET r == get_next_season_episode(fs, dirs, HomeDir, run.season_num,
                                        run.show_info.episode_count)
           item == Head(run.queue)
           slot == [title |-> item.title, chapter |-> item.chapter,
                    season |-> r.season, episode |-> r.episode, path |-> r.path]
           slotted == [run EXCEPT !.season_num = r.season, !.assigned = Append(@, slot)]
       IN  /\ dirs' = r.dirs
           /\ IF run.current_season = <<>>
              THEN /\ run' = slotted
                   /\ fs' = fs
                   /\ pc' = "comp_unexpected"
              ELSE \E answer \in DvdLookups, ok \in BOOLEAN :
                     IF <<r.season>> # run.current_season /\ ~answer.ok
                     THEN /\ run' = slotted
                          /\ fs' = fs
                          /\ pc' = "comp_error"
                     ELSE LET looked == IF <<r.season>> # run.current_season
                                        THEN [slotted EXCEPT !.show_info = answer.info,
                                                             !.current_season = <<r.season>>]
                                        ELSE slotted
                          IN  IF ok
                              THEN /\ fs' = CreateFile(fs, slot.path)
                                   /\ run' = [looked EXCEPT !.queue = Tail(@),
                                                            !.files_created = TRUE,
                                                            !.ripped = @ \cup {slot}]
                                   /\ pc' = IF Len(run.queue) > 1 THEN "comp_chapter"
                                            ELSE "comp_done"
                              ELSE /\ fs' = fs
                                   /\ run' = looked
                                   /\ pc' = "comp_error"
    /\ UNCHANGED <<args, res>>

\* except DVDError: "Try again?" - yes loops to the scan, no returns False
CompTryAgain ==
    /\ pc = "comp_error"
    /\ \/ /\ run.pass < MaxPasses
          /\ run' = [run EXCEPT !.pass = @ + 1]
          /\ pc' = "comp_scan"
       \/ /\ run' = run
          /\ pc' = "comp_failed"
    /\ UNCHANGED <<fs, dirs, args, res>>

\* main around process_tv_show: False or a DVDError ask "Try again?", every
\* way out of the loop prints "Ripping complete!"; any other exception prints
\* "Unexpected error" and exits with status 1
CompMain ==
    /\ pc \in {"comp_done", "comp_failed", "comp_main_error", "comp_unexpected"}
    /\ \/ /\ pc \in {"comp_failed", "comp_main_error"}
          /\ run.pass < MaxPasses
          /\ run' = CompRun(run.pass + 1)
          /\ pc' = "comp_lookup"
       \/ /\ pc # "comp_unexpected"
          /\ run' = run
          /\ pc' = "comp_complete"
       \/ /\ pc = "comp_unexpected"
          /\ run' = [run EXCEPT !.status = 1]
          /\ pc' = "comp_exit"
    /\ UNCHANGED <<fs, dirs, args, res>>

CompNext == CompLookup \/ CompScan \/ CompFilter \/ CompChapter \/ CompTryAgain \/ CompMain

SpecComp == CompInit /\ [][CompNext]_vars

(***************************************************************************)
(* SpecRip: the engine processes.  One call of dvd_ripper_windows.rip_title *)
(* ("dvd_rip"), the samples of one duration group of filter_episodes        *)
(* ("dvd_sample") or of the chapters of one title in filter_compilations    *)
(* ("dvd_chapters_range", "dvd_chapters_single"), or the rip loop of        *)
(* bluray_ripper.process_tv_show                                            *)
(* ("bd_batch").  run.procs holds every engine process launched so far:     *)
(* "running", "hung" (alive, repeating its last progress line, never to     *)
(* exit by itself), "killed" (kill() sent, not yet gone) or "exited".       *)
(* A file is its size in bytes, 0 when there is none.                       *)
(***************************************************************************)
\* titles of the Blu-ray batch, titles of the sampled group
MaxRips == 2

\* max_retries of dvd_ripper_windows.rip_title
RIP_MAX_RETRIES == 3

\* `progress_stall_count > 60`
PROGRESS_STALL_LIMIT == 60

\* `file_size > 1000000`
MIN_FILE_SIZE == 1000000

\* sizes of the file an engine leaves when it exits; 0: no file
DrawnSizes == {0, 1000000, 1000001}

\* what an engine killed in mid-write leaves
DrawnPartialSizes == {0, 1000}

Alive(procs) == {k \in DOMAIN procs : procs[k] # "exited"}

Running(procs) == {k \in DOMAIN procs : procs[k] \in {"running", "hung"}}

\* rip_title: returncode == 0, output_file.exists(), file_size > 1000000
RipVerified(returncode, file_size) ==
    returncode = 0 /\ file_size > 0 /\ file_size > MIN_FILE_SIZE

\* `attempt < max_retries - 1`
WillRetry(attempt) == attempt < RIP_MAX_RETRIES - 1

\* the callers of sample_title: filter_episodes, and filter_compilations for
\* a part "a-b" or a part "n" of the operator's choice of titles
SampleModes == {"dvd_sample", "dvd_chapters_range", "dvd_chapters_single"}

\* byte sizes of a sample the engine wrote and exited 0 on
DrawnSampleSizes == {0, 5}

\* the caller's `if sample_file and sample_file.exists(): sample_file.unlink()`
\* after the comparison: in the part "n" branch of filter_compilations it is
\* inside `if sample_size > 0`
UnlinksSample(mode, sample_size) ==
    mode # "dvd_chapters_single" \/ sample_size > 0

RipInit ==
    /\ fs = [d \in {HomeDir} |-> {}]
    /\ dirs = {HomeDir}
    /\ args = NoRes
    /\ res = NoRes
    /\ \E mode \in {"dvd_rip", "bd_batch"} \cup SampleModes :
         /\ pc = IF mode = "dvd_rip" THEN "rip_launch"
                 ELSE IF mode \in SampleModes THEN "sample_launch" ELSE "bd_next"
         /\ run = [mode |-> mode, procs |-> <<>>, attempt |-> 0, stall_count |-> 0,
                   returncode |-> 0, file_size |-> 0, i |-> 0, process |-> 0,
                   pollers |-> {}, stale |-> {}, reports |-> <<>>,
                   sample_files |-> {}]

\* the head of `for attempt in range(max_retries)`: Popen, the counters reset
RipLaunch ==
    /\ pc = "rip_launch"
    /\ run' = [run EXCEPT !.procs = Append(@, "running"), !.stall_count = 0]
    /\ pc' = "rip_read"
    /\ UNCHANGED <<fs, dirs, args, res>>

\* an "Encoding ... %" line: progress moved, or the same progress once more;
\* past the limit the engine is killed, except on the last attempt.  The code
\* tests only `> 60`, so the count is kept at the first value past the limit.
RipProgressLine ==
    /\ pc = "rip_read"
    /\ run.procs[Len(run.procs)] \in {"running", "hung"}
    /\ \E moved \in BOOLEAN, partial \in DrawnPartialSizes :
         IF moved /\ run.procs[Len(run.procs)] = "running"
         THEN /\ run' = [run EXCEPT !.stall_count = 0]
              /\ pc' = pc
         ELSE LET count == IF run.stall_count > PROGRESS_STALL_LIMIT THEN run.stall_count
                           ELSE run.stall_count + 1
              IN  IF count > PROGRESS_STALL_LIMIT /\ WillRetry(run.attempt)
                  THEN /\ run' = [run EXCEPT !.stall_count = count,
                                             !.procs[Len(run.procs)] = "killed",
                                             !.file_size = partial]
                       /\ pc' = "rip_except"
                  ELSE /\ run' = [run EXCEPT !.stall_count = count]
                       /\ pc' = pc
    /\ UNCHANGED <<fs, dirs, args, res>>

\* a line with "dvd read error" and the like: kill, remount unless last, raise
RipReadError ==
    /\ pc = "rip_read"
    /\ run.procs[Len(run.procs)] = "running"
    /\ \E partial \in DrawnPartialSizes :
         run' = [run EXCEPT !.procs[Len(run.procs)] = "killed", !.file_size = partial]
    /\ pc' = "rip_except"
    /\ UNCHANGED <<fs, dirs, args, res>>

\* the engine hangs on the disc
RipEngineHangs ==
    /\ pc = "rip_read"
    /\ run.procs[Len(run.procs)] = "running"
    /\ run' = [run EXCEPT !.procs[Len(run.procs)] = "hung"]
    /\ UNCHANGED <<pc, fs, dirs, args, res>>

\* the engine exits by itself: readline() returns '' and poll() is not None
RipEngineExit ==
    /\ pc = "rip_read"
    /\ run.procs[Len(run.procs)] = "running"
    /\ \E returncode \in {0, 1}, size \in DrawnSizes :
         run' = [run EXCEPT !.procs[Len(run.procs)] = "exited",
                            !.returncode = returncode, !.file_size = size]
    /\ pc' = "rip_check"
    /\ UNCHANGED <<fs, dirs, args, res>>

\* process.wait() returns at once; the checks of the file
RipCheck ==
    /\ pc = "rip_check"
    /\ pc' = IF RipVerified(run.returncode, run.file_size) THEN "rip_succeeded"
             ELSE "rip_except"
    /\ UNCHANGED <<fs, dirs, args, res, run>>

\* except DVDError: unlink the output and go round, or re-raise
RipExcept ==
    /\ pc = "rip_except"
    /\ IF WillRetry(run.attempt)
       THEN /\ run' = [run EXCEPT !.attempt = @ + 1, !.file_size = 0]
            /\ pc' = "rip_launch"
       ELSE /\ run' = run
            /\ pc' = "rip_failed"
    /\ UNCHANGED <<fs, dirs, args, res>>

\* a killed engine process is gone, whenever the system gets to it
ProcGone ==
    /\ \E k \in DOMAIN run.procs :
         /\ run.procs[k] = "killed"
         /\ run' = [run EXCEPT !.procs[k] = "exited"]
    /\ UNCHANGED <<pc, fs, dirs, args, res>>

\* sample_title for the next title of the group: subprocess.run starts the
\* engine, which writes sample_file
SampleLaunch ==
    /\ pc = "sample_launch"
    /\ run' = [run EXCEPT !.i = @ + 1, !.procs = Append(@, "running"),
                          !.sample_files = @ \cup {run.i + 1}]
    /\ pc' = "sample_run"
    /\ UNCHANGED <<fs, dirs, args, res>>

\* subprocess.run returns: the engine has exited, or it was killed and waited
\* for after the 30 s timeout; on any error sample_title unlinks the sample
\* and returns (None, 0), on success the caller unlinks it after the comparison
SampleReturn ==
    /\ pc = "sample_run"
    /\ \E outcome \in {"done", "failed", "timeout"}, sample_size \in DrawnSampleSizes :
         run' = [run EXCEPT !.procs[Len(run.procs)] = "exited",
                            !.returncode = IF outcome = "done" THEN 0 ELSE 1,
                            !.file_size = IF outcome = "done" THEN sample_size ELSE 0,
                            !.sample_files =
                                IF outcome # "done" \/ UnlinksSample(run.mode, sample_size)
                                THEN @ \ {run.i} ELSE @]
    /\ pc' = IF run.i < MaxRips THEN "sample_launch" ELSE "sample_done"
    /\ UNCHANGED <<fs, dirs, args, res>>

\* bluray process_tv_show, the next title: process = rip_title(...), a Popen
\* or None; with a process the poller's first Timer is started
BdRipStart ==
    /\ pc = "bd_next"
    /\ \E started \in BOOLEAN :
         IF started
         THEN /\ run' = [run EXCEPT !.i = @ + 1, !.procs = Append(@, "running"),
                                    !.process = Len(run.procs) + 1,
                                    !.pollers = @ \cup {run.i + 1}, !.file_size = 0]
              /\ pc' = "bd_wait"
         ELSE /\ run' = [run EXCEPT !.i = @ + 1, !.process = 0,
                                    !.reports = Append(@, "failed")]
              /\ pc' = IF run.i + 1 < MaxRips THEN "bd_next" ELSE "bd_batch_done"
    /\ UNCHANGED <<fs, dirs, args, res>>

\* makemkvcon exits, leaving a new .mkv in the directory or none
BdEngineExit ==
    /\ pc = "bd_wait"
    /\ run.procs[run.process] = "running"
    /\ \E returncode \in {0, 1}, size \in DrawnSizes :
         run' = [run EXCEPT !.procs[run.process] = "exited",
                            !.returncode = returncode, !.file_size = size]
    /\ UNCHANGED <<pc, fs, dirs, args, res>>

\* process.wait() returns; find_latest_mkv and rename decide the report
BdWaitReturn ==
    /\ pc = "bd_wait"
    /\ run.procs[run.process] = "exited"
    /\ \E renamed \in BOOLEAN :
         run' = [run EXCEPT !.reports =
                    Append(@, IF run.file_size > 0 /\ renamed THEN "ok" ELSE "failed")]
    /\ pc' = IF run.i < MaxRips THEN "bd_next" ELSE "bd_batch_done"
    /\ UNCHANGED <<fs, dirs, args, res>>

\* the pending Timer of the poller chain started for rip c fires: it redraws,
\* then starts the next Timer if `process and process.poll() is None`, process
\* being the loop's variable as it is now; run.stale records the chains that
\* went on for the process of a later rip
PollerFires ==
    /\ run.mode = "bd_batch"
    /\ pc # "interrupted"
    /\ \E c \in run.pollers :
         IF run.process # 0 /\ run.procs[run.process] = "running"
         THEN run' = [run EXCEPT !.stale = IF c < run.i THEN @ \cup {c} ELSE @]
         ELSE run' = [run EXCEPT !.pollers = @ \ {c}]
    /\ UNCHANGED <<pc, fs, dirs, args, res>>

\* KeyboardInterrupt: bluray main calls cleanup_session and sys.exit(0); the
\* DVD program has no handler and the interpreter exits.  subprocess.run kills
\* and reaps its child on the way; a Popen is left as it is.
Interrupt ==
    /\ pc \in {"rip_launch", "rip_read", "rip_check", "rip_except",
               "sample_launch", "sample_run", "bd_next", "bd_wait"}
    /\ run' = IF pc = "sample_run"
              THEN [run EXCEPT !.procs[Len(run.procs)] = "exited"]
              ELSE run
    /\ pc' = "interrupted"
    /\ UNCHANGED <<fs, dirs, args, res>>

RipProgram ==
    \/ RipLaunch
    \/ RipCheck
    \/ RipExcept
    \/ SampleLaunch
    \/ BdRipStart
    \/ BdWaitReturn

RipNext ==
    \/ RipProgram
    \/ RipProgressLine
    \/ RipReadError
    \/ RipEngineHangs
    \/ RipEngineExit
    \/ ProcGone
    \/ SampleReturn
    \/ BdEngineExit
    \/ PollerFires
    \/ Interrupt

SpecRip == RipInit /\ [][RipNext]_vars

\* the program's own steps are taken; a running engine of rip_title exits,
\* reports a read error or hangs, and goes on writing lines until then
FairSpecRip ==
    /\ SpecRip
    /\ WF_vars(RipProgram)
    /\ WF_vars(RipProgressLine)
    /\ WF_vars(RipReadError \/ RipEngineHangs \/ RipEngineExit)

(***************************************************************************)
(* What the claims say of the scans.                                        *)
(***************************************************************************)
ScanReturned == pc \in {"bd_scanned", "bd_no_titles", "dvd_scanned"}

\* C10 as claimed: every title either scan returns has a duration of at least
\* 120 seconds, and no title of 120 seconds or more is dropped.
C10_Min120BothScans ==
    ScanReturned =>
        /\ \A n \in DOMAIN res.titles : res.titles[n].duration >= 120
        /\ \A n \in DOMAIN res.parsed :
             res.parsed[n].duration >= 120 => n \in DOMAIN res.titles

\* C10, amended: parse_titles of the Blu-ray program returns exactly the
\* titles of at least 120 seconds; scan_disc of the DVD program returns
\* exactly the titles of at least 15 seconds that have a chapter longer than
\* 15 seconds.
C10_ScanThresholds ==
    /\ pc \in {"bd_scanned", "bd_no_titles"} =>
         /\ DOMAIN res.titles = {n \in DOMAIN res.parsed : res.parsed[n].duration >= 120}
         /\ \A n \in DOMAIN res.titles : res.titles[n] = res.parsed[n]
    /\ pc = "dvd_scanned" =>
         DOMAIN res.titles =
            {n \in DOMAIN res.parsed :
                /\ res.parsed[n].duration >= 15
                /\ \E i \in 1..Len(res.parsed[n].chapters) :
                     res.parsed[n].chapters[i][2] > 15}

\* a title of exactly 120 seconds kept and one of 60 seconds dropped
C10_Witness ==
    /\ pc = "bd_scanned"
    /\ \E n, m \in DOMAIN res.parsed :
         /\ res.parsed[n].duration = 120 /\ n \in DOMAIN res.titles
         /\ res.parsed[m].duration = 60 /\ m \notin DOMAIN res.titles

(***************************************************************************)
(* What the claims say of the classifier.                                   *)
(***************************************************************************)
\* the position of title n among the sample_title calls (0: never sampled)
SampledAt(n) ==
    IF \E i \in 1..Len(res.sampled) : res.sampled[i] = n
    THEN CHOOSE i \in 1..Len(res.sampled) : res.sampled[i] = n
    ELSE 0

\* the in-band titles of the call's catalog
InBand ==
    {n \in DOMAIN args.titles :
        \E r \in args.episode_ranges :
            r[1] <= args.titles[n].duration /\ args.titles[n].duration <= r[2]}

\* the other in-band titles of n's exact duration
GroupMates(n) == {m \in InBand \ {n} : args.titles[m].duration = args.titles[n].duration}

Accepted == DOMAIN res.episode_titles

\* C5: in a duration group of two or more in-band titles the titles are
\* sampled in descending chapter-count order, and a title is accepted iff its
\* sample succeeded and its byte size differs from that of every title of the
\* group accepted before it; so pairwise different fingerprints are all
\* accepted and of equal fingerprints only one of highest chapter count is.
C5_GroupDedup ==
    pc = "cls_done" =>
        \A n \in InBand : GroupMates(n) # {} =>
            /\ SampledAt(n) > 0
            /\ \A m \in GroupMates(n) :
                 SampledAt(m) < SampledAt(n) =>
                     args.titles[m].chapters >= args.titles[n].chapters
            /\ n \in Accepted <=>
                 /\ res.sizes[n] > 0
                 /\ \A m \in GroupMates(n) \cap Accepted :
                      SampledAt(m) < SampledAt(n) => res.sizes[m] # res.sizes[n]
            /\ (\A m \in GroupMates(n) : res.sizes[m] # res.sizes[n]) /\ res.sizes[n] > 0
                 => n \in Accepted
            /\ \A m \in GroupMates(n) :
                 n \in Accepted /\ res.sizes[m] = res.sizes[n] =>
                     /\ m \notin Accepted
                     /\ args.titles[n].chapters >= args.titles[m].chapters

\* two titles of one duration and one fingerprint: the one with more chapters
\* is kept although it has the higher title number
C5_Witness ==
    /\ pc = "cls_done"
    /\ \E n, m \in InBand :
         /\ m \in GroupMates(n)
         /\ n > m
         /\ args.titles[n].chapters > args.titles[m].chapters
         /\ res.sizes[n] = res.sizes[m]
         /\ n \in Accepted
         /\ m \notin Accepted
    /\ \E n, m \in Accepted : m \in GroupMates(n)

\* C6: when the in-band titles have pairwise distinct durations the result is
\* exactly those titles, each record unchanged, and no sample is taken.
C6_DistinctDurations ==
    pc = "cls_done" =>
        ((\A n \in InBand : GroupMates(n) = {}) =>
            /\ Accepted = InBand
            /\ \A n \in Accepted : res.episode_titles[n] = args.titles[n]
            /\ res.sampled = <<>>)

\* titles 660 s, 1300 s and 630 s against the band (600, 1440): all three
C6_Witness ==
    /\ pc = "cls_done"
    /\ args.episode_ranges = {<<600, 1440>>}
    /\ DOMAIN args.titles = {1, 2, 3}
    /\ args.titles[1].duration = 660
    /\ args.titles[2].duration = 1300
    /\ args.titles[3].duration = 630
    /\ Accepted = {1, 2, 3}
    /\ res.sampled = <<>>

\* C7: a title of a multi-title group whose sample failed is never in the
\* result; a group whose every sample failed contributes nothing, and the
\* other groups are still classified.
C7_FailedSampleExcluded ==
    pc = "cls_done" =>
        /\ \A n \in DOMAIN res.sizes : res.sizes[n] = 0 => n \notin Accepted
        /\ \A n \in InBand :
             \/ GroupMates(n) = {} /\ n \in Accepted
             \/ /\ GroupMates(n) # {}
                /\ (\E m \in GroupMates(n) \cup {n} : res.sizes[m] > 0)
                     <=> (\E m \in GroupMates(n) \cup {n} : m \in Accepted)

\* one group failed whole, a later group and a single title still accepted
C7_Witness ==
    /\ pc = "cls_done"
    /\ \E n \in InBand :
         /\ GroupMates(n) # {}
         /\ \A m \in GroupMates(n) \cup {n} : res.sizes[m] = 0 /\ m \notin Accepted
         /\ \E k \in Accepted : args.titles[k].duration > args.titles[n].duration

(***************************************************************************)
(* What the claims say of the sequencer, stated without the code's search.  *)
(***************************************************************************)
\* some file of the directory is an episode file of `season` numbered n
HasEpisode(files, season, n) ==
    \E f \in files : f.s = Fmt02(season) /\ Len(f.e) > 0 /\ ParseInt(f.e) = n

\* n is the smallest positive integer no episode file of `season` carries
IsSmallestUnused(files, season, n) ==
    /\ n >= 1
    /\ ~HasEpisode(files, season, n)
    /\ \A j \in 1..(n - 1) : HasEpisode(files, season, j)

\* C2: find_next_available_episode returns the smallest positive integer that
\* is not the episode number of an existing file of the season: the lowest
\* gap, max+1 only when 1..max are all present, and 1 when there is no file.
C2_SmallestUnusedEpisode ==
    pc = "seq_found" =>
        /\ IsSmallestUnused(fs[res.dir], res.season, res.find)
        /\ (\A n \in 0..(MaxEpisode + 1) : ~HasEpisode(fs[res.dir], res.season, n))
              => res.find = 1

\* the gap-fill case: episodes 1, 2 and 4 present, 3 returned (not 5)
C2_Witness ==
    /\ pc = "seq_found"
    /\ HasEpisode(fs[res.dir], res.season, 1)
    /\ HasEpisode(fs[res.dir], res.season, 2)
    /\ HasEpisode(fs[res.dir], res.season, 4)
    /\ res.find = 3

\* C3: when the smallest unused episode of the requested season exceeds
\* max_episodes the call returns season+1, has created "Season <season+1>"
\* (no failure when it was there already) and returns the smallest unused
\* episode of that directory with the path S<season+1>E<episode>.mkv in it;
\* otherwise season and directory are unchanged.
C3_Rollover ==
    /\ pc # "seq_error"
    /\ pc = "seq_done" =>
         LET s == args.season_num
             home == FilesOf(fs, res.dirs, args.output_dir)
         IN  IF \E n \in 1..args.max_episodes : IsSmallestUnused(home, s, n)
             THEN /\ res.season = s
                  /\ IsSmallestUnused(home, s, res.episode)
                  /\ res.path = [dir |-> args.output_dir,
                                 name |-> EpisodeFile(s, res.episode)]
                  /\ dirs = res.dirs
             ELSE /\ res.season = s + 1
                  /\ dirs = res.dirs \cup {s + 1}
                  /\ IsSmallestUnused(FilesOf(fs, res.dirs, s + 1), s + 1, res.episode)
                  /\ res.path = [dir |-> s + 1, name |-> EpisodeFile(s + 1, res.episode)]

\* a rollover into a season directory that existed and held episode 1
C3_Witness ==
    /\ pc = "seq_done"
    /\ res.season = args.season_num + 1
    /\ (args.season_num + 1) \in res.dirs
    /\ res.episode = 2
    /\ args.max_episodes = 2

(***************************************************************************)
(* What the claims say of the two pipelines (Spec).                         *)
(***************************************************************************)
Assigned(i) == run.assigned[i]

LastSlot == run.assigned[Len(run.assigned)]

\* C1: within one pass of the TV pipeline no two titles are assigned the same
\* season and episode number, whatever files exist, whatever the episode
\* count is, with or without a season rollover.
C1_DistinctSlots ==
    \A i, j \in DOMAIN run.assigned :
        i # j => ~(/\ Assigned(i).season = Assigned(j).season
                   /\ Assigned(i).episode = Assigned(j).episode)

\* C4: whenever a pipeline assigns a slot to a title, the slot's output path
\* names no file that exists in its destination directory at that moment.
C4_FreshPath ==
    [][Len(run'.assigned) = Len(run.assigned) + 1
         => ~PathExists(fs, dirs', run'.assigned[Len(run'.assigned)].path)]_vars

\* a DVD slot assigned in a directory that holds an earlier file of the season
\* and the file the pass ripped just before
C4_Witness ==
    /\ pc = "dvd_rip"
    /\ Len(run.assigned) = 2
    /\ Assigned(1).path.dir = LastSlot.path.dir
    /\ PathExists(fs, dirs, Assigned(1).path)
    /\ Cardinality(FilesOf(fs, dirs, LastSlot.path.dir)) = 2
    /\ ~PathExists(fs, dirs, LastSlot.path)

InResolvedRange(duration, min_seconds, max_seconds) ==
    /\ 8 * min_seconds <= 10 * duration
    /\ 10 * duration <= 12 * max_seconds

BdSelectionMade == pc \in {"bd_slot", "bd_rip", "bd_done"}

DvdSelectionMade == pc = "dvd_slot" /\ run.assigned = <<>>

BdSelectedInRange ==
    BdSelectionMade =>
        \A n \in run.selected :
            \/ n \in run.forced
            \/ InResolvedRange(run.titles[n].duration, run.min_runtime, run.max_runtime)

C9_NoDuplicateRipped ==
    run.pipeline \in {"dvd", "bd"} =>
        \A a, b \in run.ripped :
            a.title # b.title =>
                ~(/\ args.disc[a.title].duration = args.disc[b.title].duration
                  /\ args.disc[a.title].fp = args.disc[b.title].fp)

\* what the scan of the disc in the drive yields, whenever it is made
DiscScan ==
    IF run.pipeline = "dvd" THEN scan_disc(DvdListing(args.disc, 1))
    ELSE parse_titles(BdListing(args.disc, 1))

PastScan ==
    pc \in {"dvd_filter", "dvd_slot", "dvd_rip", "dvd_done",
            "bd_resolve", "bd_select", "bd_slot", "bd_rip", "bd_done", "bd_complete"}

\* C11: when the engine lists nothing or no title survives the scan's filter,
\* the scan ends in an error and the pipeline never reaches classification,
\* sequencing or ripping with that scan result.
C11_EmptyScanStops ==
    DOMAIN DiscScan = {} =>
        /\ ~PastScan
        /\ run.titles = <<>> /\ run.selected = {} /\ run.assigned = <<>> /\ run.ripped = {}

\* a disc that lists a title, none surviving the filter, stopped at the error
C11_Witness ==
    /\ pc = "bd_error"
    /\ args.disc # <<>>
    /\ DOMAIN DiscScan = {}
    /\ run.titles = <<>>

ResolvedWindow ==
    IF run.pipeline = "bd" THEN <<run.min_runtime, run.max_runtime>>
    ELSE <<run.show_info.min_length * 60, run.show_info.max_length * 60>>

\* C12: after a lookup that raised or found no runtime for the season, the
\* window is the default (1800 s, 3600 s), the expected episode count is 0 and
\* the pipeline goes on: no lookup error reaches the caller.
C12_LookupFallback ==
    run.lookup \in {"error", "nodata"} =>
        /\ ResolvedWindow = <<1800, 3600>>
        /\ run.show_info.episode_count = 0
        /\ pc \notin {"dvd_main_error", "dvd_error"}

PassEnded ==
    pc \in {"dvd_error", "dvd_failed", "dvd_done", "dvd_complete", "bd_done", "bd_complete"}

\* C15: when the rip of a title has failed for good, the pass still attempts
\* every other accepted title before it ends.
C15_BatchContinues ==
    (PassEnded /\ run.failed # {}) => Len(run.assigned) = Cardinality(run.selected)

\* C20: the program reports completion only for a disc run with an accepted
\* title and a successful rip; a run with none ends at the operator's
\* retry/abort decision without a completion message.
C20_NoCompletionWithoutRip ==
    pc \in {"dvd_complete", "bd_complete"} => run.any_ripped

(***************************************************************************)
(* What the claims say of the engine processes (SpecRip).                   *)
(***************************************************************************)
\* C13: once the engine's progress has not moved for longer than the stall
\* limit, the engine has been killed, on every attempt of a rip.
C13_StallKilled ==
    (run.mode = "dvd_rip" /\ run.stall_count > PROGRESS_STALL_LIMIT)
        => run.procs[Len(run.procs)] \notin {"running", "hung"}

\* C14: a rip is reported successful only if the engine exited with code 0
\* and left a file larger than 1,000,000 bytes.
C14_SuccessVerified ==
    /\ pc = "rip_succeeded" => (run.returncode = 0 /\ run.file_size > 1000000)
    /\ (/\ pc \in {"bd_next", "bd_batch_done"}
        /\ run.reports # <<>>
        /\ run.reports[Len(run.reports)] = "ok")
          => (run.returncode = 0 /\ run.file_size > 1000000)

RipEnded == pc \in {"rip_succeeded", "rip_failed", "interrupted"}

\* C16: one call of rip_title launches the engine at most 3 times, launches
\* again only after its last engine was killed or has exited, launches nothing
\* once it has ended, and always ends, succeeded or failed.
C16_RipStateMachine ==
    /\ [](run.mode = "dvd_rip" =>
            /\ Len(run.procs) <= 3
            /\ Len(run.procs) <= run.attempt + 1
            /\ (RipEnded => Running(run.procs) = {} \/ pc = "interrupted"))
    /\ (run.mode = "dvd_rip" => <>RipEnded)

\* C17: at every moment at most one engine process the program started has
\* not exited.
C17_OneEngine == Cardinality(Alive(run.procs)) <= 1

\* C18: the poller chain of a rip ends with that rip's engine process: no
\* chain started for an earlier rip starts another Timer while a later rip
\* runs.
C18_PollerEndsWithRip == run.mode = "bd_batch" => run.stale = {}

\* C19: when the program has exited on an operator interrupt, no engine
\* process it started is left running and no sample file is left behind.
C19_InterruptCleans ==
    pc = "interrupted" => (Alive(run.procs) = {} /\ run.sample_files = {})

(***************************************************************************)
(* Claims on what the operator is told about unripped titles.              *)
(***************************************************************************)
\* titles of the pass whose file was written
RippedTitles == {slot.title : slot \in run.ripped}

\* titles of the pass the program printed a failure for: the "Failed ...
\* for episode N" lines of the Blu-ray loop, the "Error: ..." of the DVD
\* pass that follows "Ripping i/n: Title t"
ReportedTitles == run.failed

RunEnded == pc \in {"dvd_complete", "bd_complete"}

\* a rip of the pass has ended, with its file written or not
RipAttempted == run.ripped # {} \/ run.failed # {}

\* C21: when a run in which titles were ripped ends, every accepted title
\* that was not ripped has been named to the operator as failed; none is left
\* unripped unreported.
C21_UnrippedReported ==
    (RunEnded /\ RipAttempted) => (run.selected \ RippedTitles) \subseteq ReportedTitles

(***************************************************************************)
(* Claims on re-running a pass and on the order of the pipeline stages.     *)
(***************************************************************************)
\* C22: while no file has been written since the program started (the disc
\* and the output directory are as they were), a pass that assigns a title
\* again gives it the season and episode it was given the first time; the
\* titles reach the sequencer in ascending title number.
C22_SameAssignmentOnRerun ==
    ~run.any_ripped =>
        /\ \A i \in DOMAIN run.assigned : \A f \in FirstAssigned :
              f.title = Assigned(i).title =>
                  /\ f.season = Assigned(i).season
                  /\ f.episode = Assigned(i).episode
        /\ \A i, j \in DOMAIN run.assigned :
              i < j => Assigned(i).title < Assigned(j).title

\* C23 as stated: no slot is computed once a rip of the pass has begun.
C23_SlotsBeforeFirstRip ==
    [][Len(run'.assigned) > Len(run.assigned) => ~RipAttempted]_vars

\* C23: the scan and the selection are complete before the first rip and the
\* titles are taken in ascending order of the selection.  In the Blu-ray loop
\* the episode of the i-th title is start_episode + i, start_episode being
\* fixed before the first rip.  In the DVD loop the slot of a title is computed
\* when all earlier titles of the pass have been ripped: at most one assigned
\* title is not ripped yet.
C23_StagesBeforeRip ==
    /\ run.selected \subseteq DOMAIN run.titles
    /\ \A i \in DOMAIN run.assigned :
          Assigned(i).title = SortedAscending(run.selected)[i]
    /\ run.pipeline = "bd" =>
          \A i \in DOMAIN run.assigned :
              /\ Assigned(i).season = run.season_num
              /\ Assigned(i).episode = run.start_episode + i - 1
    /\ run.pipeline = "dvd" =>
          Len(run.assigned) <= Cardinality(run.ripped) + 1

\* the DVD pass asks for the slot of its second title with the first ripped
C23_Witness ==
    /\ run.pipeline = "dvd" /\ pc = "dvd_rip"
    /\ Len(run.assigned) = 2 /\ Cardinality(run.ripped) = 1

(***************************************************************************)
(* Claims on the sample files.                                              *)
(***************************************************************************)
Sampling == run.mode \in SampleModes /\ pc # "interrupted"

\* C24: while the classifier or the chapter de-duplication samples, at most
\* one sample file exists, and none exists between two samples or when the
\* sampling has returned, whatever the sample's outcome was.
C24_NoSampleOutlives ==
    Sampling =>
        /\ Cardinality(run.sample_files) <= 1
        /\ pc \in {"sample_launch", "sample_done"} => run.sample_files = {}

(***************************************************************************)
(* Claims on the numbering of a resumed Blu-ray run.                        *)
(***************************************************************************)
\* the first slot of a Blu-ray pass has just been assigned, in a season
\* directory that already holds episode files
BdResumed ==
    /\ run.pipeline = "bd" /\ pc = "bd_rip" /\ Len(run.assigned) = 1
    /\ ExistingEpisodes(FilesOf(fs, dirs, HomeDir), run.season_num) # {}

\* C25: a Blu-ray run over a season directory that holds episode files
\* numbers its first title with the smallest positive episode number not
\* present, so a gap is used before any number above the existing maximum.
C25_ResumeFillsGap ==
    BdResumed =>
        IsSmallestUnused(FilesOf(fs, dirs, HomeDir), run.season_num, Assigned(1).episode)

(***************************************************************************)
(* Claims on the season rollover of the sequencer.                          *)
(***************************************************************************)
\* C26: with a limit of at least one episode, the slot get_next_season_episode
\* returns has an episode number within the limit in the season it returns,
\* the rollover going on past a next season that is full.
C26_EpisodeWithinLimit ==
    (pc = "seq_done" /\ args.max_episodes >= 1) => res.episode <= args.max_episodes

\* C27: with an episode count of 0 (unknown) get_next_season_episode does not
\* roll over: the slot is in the season asked for and in its directory, at
\* the smallest unused episode number.
C27_UnknownCountStays ==
    (pc = "seq_done" /\ args.max_episodes = 0) =>
        /\ res.season = args.season_num
        /\ res.path.dir = args.output_dir

(***************************************************************************)
(* Claims on the commands of the DVD scan.                                  *)
(***************************************************************************)
Tokens(cmd) == {cmd[k] : k \in DOMAIN cmd}

\* C28: the first attempt of scan_disc runs the engine with --no-dvdnav, and
\* when the attempts before the last found no titles one of the later
\* attempts runs it with --dvdnav.
C28_RetryUsesDvdnav ==
    /\ Len(args.launched) >= 1 => "--no-dvdnav" \in Tokens(args.launched[1])
    /\ Len(args.launched) = SCAN_MAX_RETRIES =>
          \E k \in 2..SCAN_MAX_RETRIES : "--dvdnav" \in Tokens(args.launched[k])

(***************************************************************************)
(* Claims on the compilation mode of the DVD pipeline.                      *)
(***************************************************************************)
\* C29: in compilation mode the season-tracking variable holds a value when
\* the first slot has been assigned, and the pass goes on to rip the chapter
\* instead of ending in an unexpected error.
C29_SeasonTrackingSet ==
    (run.rip_mode = "compilation" /\ Len(run.assigned) >= 1) =>
        /\ run.current_season # <<>>
        /\ pc # "comp_unexpected"

(***************************************************************************)
(* Claims on the exit status of the Blu-ray program.                        *)
(***************************************************************************)
\* C30: the Blu-ray process ends with status 0 exactly when its last attempt
\* on the disc ran to "Ripping complete!", also when that attempt was a
\* retry the operator approved after an error.
C30_ExitStatusOfLastAttempt ==
    pc = "bd_exit" => (run.exit_status = 0 <=> run.completed)

================================================================
